---- MODULE Spec2Model ----
(***************************************************************************)
(* Game Event Analytics dashboard (src/app.py, src/utils/db_connector.py). *)
(*                                                                         *)
(* A Python str is modelled as the sequence of its pieces (TLA+ strings).  *)
(* A SQL text is modelled as the sequence of its lexemes; a lexeme is      *)
(* itself a sequence of strings: a parenthesis, a connective, a clause     *)
(* keyword, or one atomic predicate with the literals interpolated in it.  *)
(***************************************************************************)
EXTENDS Integers, Sequences, FiniteSets, TLC

(* ------------------------------ bounds -------------------------------- *)
\* longest time-period list the session accumulates
MaxPeriods == 2
\* longest time-period list handed to the query builders
MaxClauses == 3
\* number_input values 1..MaxLevel explored
MaxLevel == 2
\* most entries the execute_query memo holds
MaxCache == 2
\* seconds one Tick lets pass
TickStep == 900
\* longest list of the session that only edits the list
MaxListed == 3
\* longest table handed to the summaries
MaxRows == 2
\* counts 0..MaxCount fed to the final SELECT
MaxCount == 3

(* --------------------------- program constants ------------------------ *)
\* @st.cache_data(ttl=1800) on execute_query
TTL == 1800
\* number_input(..., value=1): the level the session leaves selected
DefaultLevel == 1

Platforms == {"Android", "iOS"}
Events == {"spring_event", "summer_event"}


(* ------------------------------ text ---------------------------------- *)
\* str(date) and str(time) of the form's inputs
DateText == <<"2024-01-01", "2024-01-02", "2024-01-03">>
TimeText == <<"00:00:00", "12:00:00", "23:59:59">>
\* str(min_level)
LevelText == <<"1", "2", "3", "4">>

Dates == 1..Len(DateText)
Times == 1..Len(TimeText)
Levels == 1..MaxLevel

\* platform.lower()
Lower(platform) == IF platform = "Android" THEN "android" ELSE "ios"

\* f"{date} {time}"
format_datetime(date, time) == <<DateText[date], " ", TimeText[time]>>

\* s.split()[0]: the pieces before the first whitespace
SplitFirst(s) ==
  LET ws == {i \in 1..Len(s) : s[i] = " "}
  IN  IF ws = {} THEN s
      ELSE SubSeq(s, 1, (CHOOSE i \in ws : \A j \in ws : i <= j) - 1)

\* what the engine's toDate / toDateTime read back from a literal
ParseDate(piece) == CHOOSE d \in 1..Len(DateText) : DateText[d] = piece
ParseTime(piece) == CHOOSE t \in 1..Len(TimeText) : TimeText[t] = piece
ParseLevel(piece) == CHOOSE n \in 1..Len(LevelText) : LevelText[n] = piece
\* toDate('<date>[ <time>]') keeps the date part
ToDate(s) == ParseDate(s[1])
\* toDateTime('<date> <time>') as <<date, time>>
ToDateTime(s) == <<ParseDate(s[1]), ParseTime(s[3])>>

\* order of timestamps <<date, time>>
TsLeq(a, b) == a[1] < b[1] \/ (a[1] = b[1] /\ a[2] <= b[2])

(* ----------------------------- lexemes -------------------------------- *)
LP == <<"(">>
RP == <<")">>
AND == <<"AND">>
OR == <<"OR">>
WHERE == <<"WHERE">>
GROUPBY == <<"GROUP BY">>

RECURSIVE JoinTrailing(_, _)
\* a join that also writes the separator after the last part
JoinTrailing(parts, sep) ==
  IF parts = <<>> THEN <<>>
  ELSE parts[1] \o <<sep>> \o JoinTrailing(Tail(parts), sep)

RECURSIVE Join(_, _)
\* sep.join(parts), every part a sequence of lexemes
Join(parts, sep) ==
  IF parts = <<>> THEN <<>>
  ELSE IF Len(parts) = 1 THEN parts[1]
  ELSE parts[1] \o <<sep>> \o Join(Tail(parts), sep)

(* ------------------------- Condition Builder --------------------------- *)
\* one period's clause, app.py
PeriodCondition(period) ==
  LET start_date == SplitFirst(period.start_date)
      end_date == SplitFirst(period.end_date)
  IN  << LP,
         <<"created_day BETWEEN toDate">> \o start_date \o <<"AND toDate">> \o end_date,
         AND,
         <<"created_date >= toDateTime">> \o period.start_date,
         AND,
         <<"created_date <= toDateTime">> \o period.end_date,
         RP >>

build_time_periods_condition(time_periods) ==
  Join([i \in 1..Len(time_periods) |-> PeriodCondition(time_periods[i])], OR)

\* one period's clause, utils/db_connector.py: toDate gets the whole literal
PeriodConditionConnector(period) ==
  << LP,
     <<"created_day BETWEEN toDate">> \o period.start_date
        \o <<"AND toDate">> \o period.end_date,
     AND,
     <<"created_date >= toDateTime">> \o period.start_date,
     AND,
     <<"created_date <= toDateTime">> \o period.end_date,
     RP >>

connector_build_time_periods_condition(time_periods) ==
  Join([i \in 1..Len(time_periods) |-> PeriodConditionConnector(time_periods[i])], OR)

(* --------------------------- Query Builders ---------------------------- *)
\* f"com_fc_goods_sort_matching_puzzle_triplemaster_{platform.lower()}"
TablePrefix(platform) ==
  <<"com_fc_goods_sort_matching_puzzle_triplemaster_", Lower(platform)>>

\* the time condition spliced in without its enclosing parentheses
WhereEligibleUnwrapped(cond, min_level) ==
  <<WHERE>> \o cond \o <<AND, <<"r.level >=", LevelText[min_level]>> >>

\* WHERE of eligible_users
WhereEligible(cond, min_level) ==
  <<WHERE, LP>> \o cond \o <<RP, AND, <<"r.level >=", LevelText[min_level]>> >>

\* WHERE of event_participants
WhereParticipants(cond, event_name, min_level) ==
  <<WHERE, LP>> \o cond
    \o <<RP, AND, <<"e.event_name =", event_name>>,
         AND, <<"e.level >=", LevelText[min_level]>> >>

\* WHERE of iap_metrics
WherePurchases(cond, min_level) ==
  <<WHERE, LP>> \o cond \o <<RP, AND, <<"i.level >=", LevelText[min_level]>> >>

\* WHERE of event_engagement
WhereEngagement(cond, event_name, min_level) ==
  <<WHERE, LP>> \o cond
    \o <<RP, AND, <<"event_name =", event_name>>,
         AND, <<"level >=", LevelText[min_level]>> >>

get_event_participation_query(event_name, time_periods, platform, min_level) ==
  LET table_prefix == TablePrefix(platform)
      time_periods_condition == build_time_periods_condition(time_periods)
  IN  << <<"WITH eligible_users AS">>, LP,
         <<"SELECT DISTINCT r.account_id, r.created_day FROM">>,
         table_prefix \o <<".f_sdk_retention_data r">> >>
      \o WhereEligible(time_periods_condition, min_level)
      \o << RP, <<",">>,
            <<"event_participants AS">>, LP,
            <<"SELECT DISTINCT e.account_id, e.created_day FROM">>,
            table_prefix \o <<".f_sdk_event_data e">> >>
      \o WhereParticipants(time_periods_condition, event_name, min_level)
      \o << RP, <<",">>,
            <<"user_participation AS">>, LP,
            <<"SELECT eu.account_id, eu.created_day, CASE WHEN ep.account_id IS NOT NULL",
              "THEN 'Event Participant' ELSE 'Non-Participant' END AS participation_group",
              "FROM eligible_users eu LEFT JOIN event_participants ep",
              "ON eu.account_id = ep.account_id AND eu.created_day = ep.created_day">>,
            RP, <<",">>,
            <<"daily_active_users_by_group AS">>, LP,
            <<"SELECT created_day, participation_group,",
              "COUNT(DISTINCT account_id) AS group_total_users FROM user_participation">>,
            GROUPBY, <<"created_day, participation_group">>,
            RP, <<",">>,
            <<"iap_metrics AS">>, LP,
            <<"SELECT i.created_day, up.participation_group, paying_users, purchase_count,",
              "total_revenue, revenue quantiles 0.25 0.50 0.75 0.90, first_time_payers FROM">>,
            table_prefix \o <<".f_sdk_in_app_data i">>,
            <<"JOIN user_participation up",
              "ON i.account_id = up.account_id AND i.created_day = up.created_day">> >>
      \o WherePurchases(time_periods_condition, min_level)
      \o << GROUPBY, <<"i.created_day, up.participation_group">>,
            RP,
            <<"SELECT im.*, da.group_total_users,",
              "im.first_time_payers / nullIf(da.group_total_users, 0) AS conversion_rate,",
              "im.paying_users / nullIf(da.group_total_users, 0) AS pay_rate,",
              "im.total_revenue / nullIf(da.group_total_users, 0) AS ARPU,",
              "im.total_revenue / nullIf(im.paying_users, 0) AS ARPPU",
              "FROM iap_metrics im JOIN daily_active_users_by_group da",
              "ON im.created_day = da.created_day",
              "AND im.participation_group = da.participation_group",
              "ORDER BY im.created_day, im.participation_group">> >>

get_event_engagement_query(event_name, time_periods, platform, min_level) ==
  LET table_prefix == TablePrefix(platform)
      time_periods_condition == build_time_periods_condition(time_periods)
  IN  << <<"WITH event_engagement AS">>, LP,
         <<"SELECT created_day, unique_users, total_interactions,",
           "avg_interactions_per_user, unique_sessions, avg_interactions_per_session FROM">>,
         table_prefix \o <<".f_sdk_event_data">> >>
      \o WhereEngagement(time_periods_condition, event_name, min_level)
      \o << GROUPBY, <<"created_day">>, <<"ORDER BY created_day">>,
            RP,
            <<"SELECT * FROM event_engagement">> >>

(* -------------------- reading a SQL text back (the engine) ------------- *)
\* nesting depth after lexeme i
Depth(q, i) ==
  Cardinality({j \in 1..i : q[j] = LP}) - Cardinality({j \in 1..i : q[j] = RP})

Min(S) == CHOOSE x \in S : \A y \in S : x <= y

\* positions of lexeme sep outside every parenthesis of toks
TopLevel(toks, sep) == {i \in 1..Len(toks) : toks[i] = sep /\ Depth(toks, i) = 0}

RECURSIVE SplitTop(_, _)
\* toks cut at its top-level occurrences of sep
SplitTop(toks, sep) ==
  IF TopLevel(toks, sep) = {} THEN <<toks>>
  ELSE LET i == Min(TopLevel(toks, sep))
       IN  <<SubSeq(toks, 1, i - 1)>> \o SplitTop(SubSeq(toks, i + 1, Len(toks)), sep)

LevelAtoms == {"r.level >=", "e.level >=", "i.level >=", "level >="}
EventAtoms == {"e.event_name =", "event_name ="}

\* one atomic predicate on a row [created_day, created_date, level, event_name]
EvalAtom(atom, row) ==
  IF atom[1] = "created_day BETWEEN toDate"
  THEN LET k == Min({i \in 1..Len(atom) : atom[i] = "AND toDate"})
       IN  /\ ToDate(SubSeq(atom, 2, k - 1)) <= row.created_day
           /\ row.created_day <= ToDate(SubSeq(atom, k + 1, Len(atom)))
  ELSE IF atom[1] = "created_date >= toDateTime"
  THEN TsLeq(ToDateTime(Tail(atom)), row.created_date)
  ELSE IF atom[1] = "created_date <= toDateTime"
  THEN TsLeq(row.created_date, ToDateTime(Tail(atom)))
  ELSE IF atom[1] \in LevelAtoms
  THEN row.level >= ParseLevel(atom[2])
  ELSE IF atom[1] \in EventAtoms
  THEN row.event_name = atom[2]
  ELSE FALSE

RECURSIVE EvalExpr(_, _)
\* SQL precedence: AND binds tighter than OR, parentheses first
EvalExpr(toks, row) ==
  LET terms == SplitTop(toks, OR)
      EvalFactor(f) ==
        IF Len(f) = 1 THEN EvalAtom(f[1], row)
        ELSE IF Len(f) >= 2 /\ f[1] = LP /\ f[Len(f)] = RP
        THEN EvalExpr(SubSeq(f, 2, Len(f) - 1), row)
        ELSE FALSE
      EvalTerm(t) ==
        LET factors == SplitTop(t, AND)
        IN  \A k \in 1..Len(factors) : EvalFactor(factors[k])
  IN  \E k \in 1..Len(terms) : EvalTerm(terms[k])

\* where the WHERE clause that starts at lexeme w ends
ClauseEnd(q, w) ==
  Min({j \in (w + 1)..(Len(q) + 1) :
         \/ j = Len(q) + 1
         \/ (q[j] = RP /\ Depth(q, j) < Depth(q, w))
         \/ (q[j] = GROUPBY /\ Depth(q, j) = Depth(q, w))})

\* the predicates of the WHERE clauses of q, in order
WhereClauses(q) ==
  LET ws == {w \in 1..Len(q) : q[w] = WHERE}
      Nth(n) == CHOOSE w \in ws : Cardinality({v \in ws : v < w}) = n - 1
  IN  [n \in 1..Cardinality(ws) |-> SubSeq(q, Nth(n) + 1, ClauseEnd(q, Nth(n)) - 1)]

(* ------------------------- SQL values and ratios ----------------------- *)
Null == [null |-> TRUE]
Num(n, d) == [null |-> FALSE, num |-> n, den |-> d]
IntVal(n) == Num(n, 1)

\* nullIf(v, w)
NullIf(v, w) == IF v = w THEN Null ELSE v

\* a / b of the engine on numbers; NULL when an operand is NULL
Divide(a, b) ==
  IF a = Null \/ b = Null THEN Null
  ELSE Num(a.num * b.den, a.den * b.num)

\* x / nullIf(y, 0) of the final SELECT
GuardedRatio(numerator, denominator) ==
  Divide(IntVal(numerator), NullIf(IntVal(denominator), IntVal(0)))

\* one row of the final SELECT from its iap_metrics row and its
\* daily_active_users_by_group row
FinalSelect(im, da) ==
  << im.created_day, im.participation_group, da.group_total_users,
     im.paying_users, im.purchase_count, im.total_revenue,
     im.revenue_25th_percentile, im.revenue_median,
     im.revenue_75th_percentile, im.revenue_90th_percentile,
     im.first_time_payers,
     GuardedRatio(im.first_time_payers, da.group_total_users),
     GuardedRatio(im.paying_users, da.group_total_users),
     GuardedRatio(im.total_revenue, da.group_total_users),
     GuardedRatio(im.total_revenue, im.paying_users) >>

(* ------------------------------ DataFrames ----------------------------- *)
None == [kind |-> "None"]
Unset == [kind |-> "unset"]
DataFrame(rows, columns) == [kind |-> "DataFrame", columns |-> columns, rows |-> rows]
\* pd.DataFrame()
EmptyDataFrame == DataFrame(<<>>, <<>>)
\* df.empty
IsEmpty(df) == df.rows = <<>> \/ df.columns = <<>>

ColumnText ==
  <<"column_0", "column_1", "column_2", "column_3", "column_4", "column_5",
    "column_6", "column_7", "column_8", "column_9", "column_10", "column_11",
    "column_12", "column_13", "column_14">>
\* [f'column_{i}' for i in range(n)]
PositionalColumns(n) == SubSeq(ColumnText, 1, n)

ParticipationColumns ==
  <<"created_day", "participation_group", "group_total_users", "paying_users",
    "purchase_count", "total_revenue", "revenue_25th_percentile",
    "revenue_median", "revenue_75th_percentile", "revenue_90th_percentile",
    "first_time_payers", "conversion_rate", "pay_rate", "ARPU", "ARPPU">>
EngagementColumns ==
  <<"created_day", "unique_users", "total_interactions",
    "avg_interactions_per_user", "unique_sessions", "avg_interactions_per_session">>

\* a handler that leaves the positional column names
FixColumnsSkipped(df, names) == df

\* df.columns = names, applied only to a table that is there and not empty
FixColumns(df, names) ==
  IF df # None /\ ~IsEmpty(df) THEN DataFrame(df.rows, names) ELSE df

HasColumn(df, name) == \E i \in 1..Len(df.columns) : df.columns[i] = name
ColumnIndex(df, name) == CHOOSE i \in 1..Len(df.columns) : df.columns[i] = name

RECURSIVE SumSeq(_)
SumSeq(s) == IF s = <<>> THEN 0 ELSE Head(s) + SumSeq(Tail(s))

\* df[name] as a sequence
Column(df, name) == [i \in 1..Len(df.rows) |-> df.rows[i][ColumnIndex(df, name)]]

\* a selection that keeps every row
RowsOfGroupAll(df, group) == df

\* df[df['participation_group'] == group]
RowsOfGroup(df, group) ==
  LET g == ColumnIndex(df, "participation_group")
  IN  DataFrame(SelectSeq(df.rows, LAMBDA r : r[g] = group), df.columns)

(* --------------------------- Metrics Summarizer ------------------------ *)
\* a Python number as the fraction <<numerator, denominator>>
Zero == <<0, 1>>

calculate_overall_participation_rate(df) ==
  IF df = None \/ IsEmpty(df) THEN Zero
  ELSE IF ~HasColumn(df, "participation_group") \/ ~HasColumn(df, "group_total_users")
  THEN Zero
  ELSE LET participants ==
             SumSeq(Column(RowsOfGroup(df, "Event Participant"), "group_total_users"))
           total_users == SumSeq(Column(df, "group_total_users"))
       IN  IF total_users > 0 THEN <<participants, total_users>> ELSE Zero

calculate_overall_revenue(df) ==
  IF df = None \/ IsEmpty(df) THEN 0
  ELSE IF ~HasColumn(df, "participation_group") \/ ~HasColumn(df, "total_revenue")
  THEN 0
  ELSE SumSeq(Column(RowsOfGroup(df, "Event Participant"), "total_revenue"))

\* total_engagement of the analyze handler
total_engagement_of(engagement_df) ==
  IF engagement_df # None /\ ~IsEmpty(engagement_df)
  THEN SumSeq(Column(engagement_df, "total_interactions"))
  ELSE 0

(* ------------------------------ the engine ----------------------------- *)
\* what client.execute(query) can do: raise, or return a list of rows
Raises(message) == [raises |-> TRUE, message |-> message, rows |-> <<>>]
Returns(rows) == [raises |-> FALSE, message |-> "", rows |-> rows]

SampleParticipationRows ==
  << FinalSelect([created_day |-> 1, participation_group |-> "Event Participant",
                  paying_users |-> 2, purchase_count |-> 3, total_revenue |-> 100,
                  revenue_25th_percentile |-> 10, revenue_median |-> 20,
                  revenue_75th_percentile |-> 30, revenue_90th_percentile |-> 40,
                  first_time_payers |-> 1],
                 [created_day |-> 1, participation_group |-> "Event Participant",
                  group_total_users |-> 4]),
     FinalSelect([created_day |-> 1, participation_group |-> "Non-Participant",
                  paying_users |-> 1, purchase_count |-> 1, total_revenue |-> 7,
                  revenue_25th_percentile |-> 7, revenue_median |-> 7,
                  revenue_75th_percentile |-> 7, revenue_90th_percentile |-> 7,
                  first_time_payers |-> 0],
                 [created_day |-> 1, participation_group |-> "Non-Participant",
                  group_total_users |-> 6]) >>

\* created_day, unique_users, total_interactions, per user, sessions, per session
SampleEngagementRows ==
  << <<1, 10, 50, Num(50, 10), 5, Num(50, 5)>> >>

EngineMessages == {"Code: 62. Syntax error"}

ParticipationAnswers ==
  {Raises(m) : m \in EngineMessages} \cup {Returns(<<>>), Returns(SampleParticipationRows)}
EngagementAnswers ==
  {Raises(m) : m \in EngineMessages} \cup {Returns(<<>>), Returns(SampleEngagementRows)}

\* get_available_events: the list of event names, [] when the engine raises
AvailableEvents == <<"spring_event">>
EventLists == {<<>>, AvailableEvents}

(* ---------------------------- Query Executor --------------------------- *)
\* what a call leaves behind: the returned value, the st.error elements it
\* drew, and whether it raised instead of returning
Returned(value) == [raised |-> FALSE, value |-> value, shown |-> <<>>]

\* an executor that lets the engine's exception through
OnExceptionRaise(platform, e) == [raised |-> TRUE, value |-> None, shown |-> <<>>]

\* except Exception as e: st.error(...); return None
OnException(platform, e) ==
  [raised |-> FALSE, value |-> None,
   shown |-> << [platform |-> platform, message |-> e] >>]

\* the body of execute_query(_client, query, platform) on the engine's answer
execute_query(answer, platform) ==
  IF answer.raises THEN OnException(platform, answer.message)
  ELSE IF answer.rows = <<>> THEN Returned(EmptyDataFrame)
  ELSE Returned(DataFrame(answer.rows, PositionalColumns(Len(answer.rows[1]))))

\* a memo keyed on the platform alone
CacheKeyPlatformOnly(query, platform) == <<<<>>, platform>>

\* st.cache_data hashes the arguments without a leading underscore
CacheKey(query, platform) == <<query, platform>>

CacheHit(c, key) == key \in DOMAIN c /\ c[key].age < TTL

\* a memo that keeps tables only, never a failed call's None
CachePutTablesOnly(c, key, out) ==
  IF out.value = None THEN c
  ELSE [k \in DOMAIN c \cup {key} |-> IF k = key THEN [out |-> out, age |-> 0] ELSE c[k]]

CachePut(c, key, out) ==
  [k \in DOMAIN c \cup {key} |-> IF k = key THEN [out |-> out, age |-> 0] ELSE c[k]]

\* @st.cache_data(ttl=1800): a stored outcome (value and drawn elements) is
\* replayed; otherwise the body runs, and what it returns is stored
cached_execute_query(c, query, platform, answer) ==
  LET key == CacheKey(query, platform)
  IN  IF CacheHit(c, key)
      THEN [out |-> c[key].out, cache |-> c, trip |-> FALSE]
      ELSE LET out == execute_query(answer, platform)
           IN  [out |-> out,
                cache |-> IF out.raised THEN c ELSE CachePut(c, key, out),
                trip |-> TRUE]

(* ------------------------------ the session ---------------------------- *)
VARIABLES
  time_periods,      \* st.session_state.time_periods
  clients,           \* platforms whose connection test passed in the latest run
  cache,             \* the memo of execute_query
  stage,             \* what the latest script run drew below the sidebar
  participation_df,  \* the latest run's tables
  engagement_df,
  called,            \* execute_query calls of the latest run
  issued,            \* round-trips execute_query made in the latest run
  errors,            \* st.error elements execute_query drew in the latest run
  view,              \* what the latest run rendered from the tables
  args,              \* arguments of a builder or SELECT evaluation
  result             \* what it returned

\* the form's four inputs
FormInput(sd, st, ed, et) ==
  [start_date |-> sd, start_time |-> st, end_date |-> ed, end_time |-> et]

\* submissions explored: several days; one day with the end time before the
\* start time; the end date before the start date
FormInputs ==
  { FormInput(1, 1, 2, 3), FormInput(1, 2, 1, 1), FormInput(2, 1, 1, 3) }

BlankView == [widget |-> "none"]

\* a script run draws the page anew: nothing of an earlier analysis stays
NoAnalysis ==
  /\ participation_df' = Unset
  /\ engagement_df' = Unset
  /\ called' = <<>>
  /\ issued' = <<>>
  /\ errors' = <<>>
  /\ view' = BlankView

SessionInit ==
  /\ time_periods = <<>>
  /\ clients = {}
  /\ cache = <<>>
  /\ stage = "start"
  /\ participation_df = Unset
  /\ engagement_df = Unset
  /\ called = <<>>
  /\ issued = <<>>
  /\ errors = <<>>
  /\ view = BlankView

Connections == SUBSET Platforms

\* lines 340-375: the run gets past client setup and event loading
Reaches(conn, avail) == conn # {} /\ avail # <<>>

\* how a run ends: st.stop() at line 361 or 375, else what it did
EndStage(conn, avail, done) ==
  IF conn = {} THEN "stopped_no_clients"
  ELSE IF avail = <<>> THEN "stopped_no_events"
  ELSE done

\* st.stop() before any widget below is drawn: whatever was clicked is lost
RunStops(conn, avail) ==
  /\ ~Reaches(conn, avail)
  /\ clients' = conn
  /\ stage' = EndStage(conn, avail, "stopped")
  /\ NoAnalysis
  /\ UNCHANGED <<time_periods, cache>>

\* date validation that rejects nothing
DateErrorNever(f) == FALSE

\* date_error = new_end_date < new_start_date
DateError(f) == f.end_date < f.start_date

\* the dict appended on submit
NewPeriod(f) ==
  [start_date |-> format_datetime(f.start_date, f.start_time),
   end_date |-> format_datetime(f.end_date, f.end_time)]

\* pop() without an index: the last entry goes
PopLast(list, i) == SubSeq(list, 1, Len(list) - 1)

\* time_periods.pop(i), i counted from 1 here
Pop(list, i) == SubSeq(list, 1, i - 1) \o SubSeq(list, i + 1, Len(list))

\* "Add Time Period" submitted with the form's inputs f
AddPeriod(f, conn, avail) ==
  /\ Reaches(conn, avail)
  /\ clients' = conn
  /\ IF ~DateError(f)
     THEN /\ time_periods' = Append(time_periods, NewPeriod(f))
          /\ stage' = "added"
     ELSE /\ time_periods' = time_periods
          /\ stage' = "rejected"
  /\ NoAnalysis
  /\ UNCHANGED cache

\* "Remove" of entry i clicked in a run that reaches line 467: pop, then
\* st.rerun() runs the script again, with connections conn2 and events avail2
RemovePeriod(i, conn2, avail2) ==
  /\ {conn \in Connections : Reaches(conn, AvailableEvents)} # {}
  /\ i \in 1..Len(time_periods)
  /\ time_periods' = Pop(time_periods, i)
  /\ clients' = conn2
  /\ stage' = EndStage(conn2, avail2, "removed")
  /\ NoAnalysis
  /\ UNCHANGED cache

\* "Clear All Time Periods" clicked (drawn only while the list is not empty)
ClearPeriods(conn2, avail2) ==
  /\ {conn \in Connections : Reaches(conn, AvailableEvents)} # {}
  /\ time_periods # <<>>
  /\ time_periods' = <<>>
  /\ clients' = conn2
  /\ stage' = EndStage(conn2, avail2, "cleared")
  /\ NoAnalysis
  /\ UNCHANGED cache

\* a run caused by any other widget: nothing clicked
Rerun(conn, avail) ==
  /\ Reaches(conn, avail)
  /\ clients' = conn
  /\ stage' = EndStage(conn, avail, "idle")
  /\ NoAnalysis
  /\ UNCHANGED <<time_periods, cache>>

\* the raw data expander of one table
RawView(df, warning) ==
  IF df # None /\ ~IsEmpty(df)
  THEN [widget |-> "dataframe", df |-> df]
  ELSE [widget |-> "warning", text |-> warning]

\* lines 514-708: tiles, charts and expanders drawn from the two tables
Render(p_df, e_df) ==
  [widget |-> "analysis",
   overall_participation_rate |-> calculate_overall_participation_rate(p_df),
   overall_revenue |-> calculate_overall_revenue(p_df),
   total_engagement |-> total_engagement_of(e_df),
   participation_charts |-> (p_df # None /\ ~IsEmpty(p_df)),
   engagement_charts |-> (e_df # None /\ ~IsEmpty(e_df)),
   raw_participation |-> RawView(p_df, "No participation data available."),
   raw_engagement |-> RawView(e_df, "No engagement data available.")]

Call(which, query, p) == [which |-> which, query |-> query, platform |-> p]
Trip(which, query, p, answer) ==
  [which |-> which, query |-> query, platform |-> p, answer |-> answer]

\* the two execute_query calls of lines 493-497 and what they leave
RunQueries(c, periods, p, selected_event, min_level, answer1, answer2) ==
  LET participation_query ==
        get_event_participation_query(selected_event, periods, p, min_level)
      first == cached_execute_query(c, participation_query, p, answer1)
      engagement_query ==
        get_event_engagement_query(selected_event, periods, p, min_level)
      second == cached_execute_query(first.cache, engagement_query, p, answer2)
      trip1 == IF first.trip
               THEN <<Trip("participation", participation_query, p, answer1)>>
               ELSE <<>>
      trip2 == IF second.trip
               THEN <<Trip("engagement", engagement_query, p, answer2)>>
               ELSE <<>>
  IN  IF first.out.raised
      THEN \* an exception leaves the handler at the first call
           [raised |-> TRUE, cache |-> first.cache,
            called |-> <<Call("participation", participation_query, p)>>,
            issued |-> trip1, errors |-> <<>>,
            participation_df |-> Unset, engagement_df |-> Unset]
      ELSE IF second.out.raised
      THEN [raised |-> TRUE, cache |-> second.cache,
            called |-> <<Call("participation", participation_query, p),
                         Call("engagement", engagement_query, p)>>,
            issued |-> trip1 \o trip2, errors |-> first.out.shown,
            participation_df |-> first.out.value, engagement_df |-> Unset]
      ELSE [raised |-> FALSE, cache |-> second.cache,
            called |-> <<Call("participation", participation_query, p),
                         Call("engagement", engagement_query, p)>>,
            issued |-> trip1 \o trip2,
            errors |-> first.out.shown \o second.out.shown,
            participation_df |-> FixColumns(first.out.value, ParticipationColumns),
            engagement_df |-> FixColumns(second.out.value, EngagementColumns)]

\* a platform picker that offers both platforms whatever connected
PlatformOptionsAll(conn) == Platforms

\* options=list(clients.keys()) of the platform selectbox
PlatformOptions(conn) == conn

\* the handler without its non-empty list condition
AnalysisAlways(periods) == TRUE

\* ... and st.session_state.time_periods (line 489)
AnalysisAllowed(periods) == periods # <<>>

\* "Analyze Event" clicked, lines 489-719
AnalyzeEvent(conn, p, avail, selected_event, min_level, answer1, answer2) ==
  /\ Reaches(conn, avail)
  /\ p \in PlatformOptions(conn)
  /\ selected_event \in {avail[i] : i \in 1..Len(avail)}
  /\ clients' = conn
  /\ IF AnalysisAllowed(time_periods)
     THEN LET run == RunQueries(cache, time_periods, p, selected_event, min_level,
                                answer1, answer2)
          IN  /\ Cardinality(DOMAIN run.cache) <= MaxCache
              /\ stage' = IF run.raised THEN "exception" ELSE "analyzed"
              /\ cache' = run.cache
              /\ called' = run.called
              /\ issued' = run.issued
              /\ errors' = run.errors
              /\ participation_df' = run.participation_df
              /\ engagement_df' = run.engagement_df
              /\ view' = IF run.raised THEN BlankView
                         ELSE Render(run.participation_df, run.engagement_df)
     ELSE \* st.info: add at least one time period first
          /\ stage' = EndStage(conn, avail, "need_period")
          /\ cache' = cache
          /\ NoAnalysis
  /\ UNCHANGED time_periods

\* TickStep seconds pass; the memo drops what has reached its ttl
Tick ==
  /\ DOMAIN cache # {}
  /\ LET aged == [k \in DOMAIN cache |-> [cache[k] EXCEPT !.age = @ + TickStep]]
         kept == {k \in DOMAIN cache : aged[k].age < TTL}
     IN  cache' = IF kept = {} THEN <<>> ELSE [k \in kept |-> aged[k]]
  /\ UNCHANGED <<time_periods, clients, stage, participation_df,
                 engagement_df, called, issued, errors, view>>

vars == <<time_periods, clients, cache, stage, participation_df,
          engagement_df, called, issued, errors, view, args, result>>

NoCall == [op |-> "none"]

Init ==
  /\ SessionInit
  /\ args = NoCall
  /\ result = NoCall

Next ==
  \/ \E conn \in Connections, avail \in EventLists :
       RunStops(conn, avail) /\ UNCHANGED <<args, result>>
  \/ \E f \in FormInputs, conn \in Connections :
       /\ Len(time_periods) < MaxPeriods
       /\ AddPeriod(f, conn, AvailableEvents)
       /\ UNCHANGED <<args, result>>
  \/ \E i \in 1..MaxPeriods, conn2 \in Connections, avail2 \in EventLists :
       RemovePeriod(i, conn2, avail2) /\ UNCHANGED <<args, result>>
  \/ \E conn2 \in Connections, avail2 \in EventLists :
       ClearPeriods(conn2, avail2) /\ UNCHANGED <<args, result>>
  \/ \E conn \in Connections :
       Rerun(conn, AvailableEvents) /\ UNCHANGED <<args, result>>
  \/ \E conn \in Connections, p \in Platforms,
        answer1 \in ParticipationAnswers, answer2 \in EngagementAnswers :
       AnalyzeEvent(conn, p, AvailableEvents, AvailableEvents[1], DefaultLevel,
                    answer1, answer2)
         /\ UNCHANGED <<args, result>>
  \/ Tick /\ UNCHANGED <<args, result>>

Spec == Init /\ [][Next]_vars

(* ------------------------- the builders, alone ------------------------- *)
\* periods handed to the builders: those of the form's accepted submissions
SamplePeriods ==
  { NewPeriod(FormInput(1, 1, 2, 3)), NewPeriod(FormInput(1, 2, 1, 1)),
    NewPeriod(FormInput(3, 1, 3, 2)) }

PeriodLists == UNION {[1..n -> SamplePeriods] : n \in 1..MaxClauses}

BuilderArgs ==
  [op : {"build"}, event_name : Events, time_periods : PeriodLists,
   platform : Platforms, min_level : Levels]

\* rows of a source table: day, timestamp on that day, level, event name
Rows ==
  { [created_day |-> d, created_date |-> <<d, t>>, level |-> l, event_name |-> e] :
      d \in Dates, t \in Times, l \in Levels, e \in Events }

\* the rows each WHERE clause of a query text lets through
Accepted(query) ==
  LET wheres == WhereClauses(query)
  IN  [n \in 1..Len(wheres) |-> {row \in Rows : EvalExpr(wheres[n], row)}]

BuildCondition ==
  /\ args.op = "build"
  /\ result' = [op |-> "condition",
                text |-> build_time_periods_condition(args.time_periods),
                connector_text |->
                  connector_build_time_periods_condition(args.time_periods)]
  /\ UNCHANGED args

BuildParticipation ==
  /\ args.op = "build"
  /\ LET query == get_event_participation_query(args.event_name, args.time_periods,
                                                args.platform, args.min_level)
     IN  result' = [op |-> "participation", text |-> query,
                    accepted |-> Accepted(query)]
  /\ UNCHANGED args

BuildEngagement ==
  /\ args.op = "build"
  /\ LET query == get_event_engagement_query(args.event_name, args.time_periods,
                                             args.platform, args.min_level)
     IN  result' = [op |-> "engagement", text |-> query,
                    accepted |-> Accepted(query)]
  /\ UNCHANGED args

SessionUnchanged ==
  UNCHANGED <<time_periods, clients, cache, stage, participation_df,
              engagement_df, called, issued, errors, view>>

InitBuild ==
  /\ SessionInit
  /\ args \in BuilderArgs
  /\ result = NoCall

NextBuild ==
  \/ BuildCondition /\ SessionUnchanged
  \/ BuildParticipation /\ SessionUnchanged
  \/ BuildEngagement /\ SessionUnchanged

SpecBuild == InitBuild /\ [][NextBuild]_vars

(* ----------------------- the final SELECT, alone ----------------------- *)
Revenues == {0, 7, 100}

SelectArgs ==
  [op : {"select"}, first_time_payers : 0..MaxCount, paying_users : 0..MaxCount,
   total_revenue : Revenues, group_total_users : 0..MaxCount]

SelectRow ==
  /\ args.op = "select"
  /\ result' =
       [op |-> "select",
        row |-> FinalSelect(
                  [created_day |-> 1, participation_group |-> "Event Participant",
                   paying_users |-> args.paying_users,
                   purchase_count |-> args.paying_users,
                   total_revenue |-> args.total_revenue,
                   revenue_25th_percentile |-> 0, revenue_median |-> 0,
                   revenue_75th_percentile |-> 0, revenue_90th_percentile |-> 0,
                   first_time_payers |-> args.first_time_payers],
                  [created_day |-> 1, participation_group |-> "Event Participant",
                   group_total_users |-> args.group_total_users])]
  /\ UNCHANGED args

InitSelect ==
  /\ SessionInit
  /\ args \in SelectArgs
  /\ result = NoCall

NextSelect == SelectRow /\ SessionUnchanged

SpecSelect == InitSelect /\ [][NextSelect]_vars

(* ------------------------- the list editor, alone ---------------------- *)
\* submissions explored: three accepted ones that differ, and a rejected one
ListInputs ==
  { FormInput(1, 1, 2, 3), FormInput(1, 2, 1, 1), FormInput(3, 1, 3, 2),
    FormInput(2, 1, 1, 3) }

\* a session in which the operator only adds, removes and clears
NextList ==
  \/ \E conn \in Connections, avail \in EventLists :
       RunStops(conn, avail) /\ UNCHANGED <<args, result>>
  \/ \E f \in ListInputs, conn \in Connections :
       /\ Len(time_periods) < MaxListed
       /\ AddPeriod(f, conn, AvailableEvents)
       /\ UNCHANGED <<args, result>>
  \/ \E i \in 1..MaxListed, conn2 \in Connections, avail2 \in EventLists :
       RemovePeriod(i, conn2, avail2) /\ UNCHANGED <<args, result>>
  \/ \E conn2 \in Connections, avail2 \in EventLists :
       ClearPeriods(conn2, avail2) /\ UNCHANGED <<args, result>>
  \/ \E conn \in Connections :
       Rerun(conn, AvailableEvents) /\ UNCHANGED <<args, result>>

SpecList == Init /\ [][NextList]_vars

(* -------------------------- the summaries, alone ----------------------- *)
\* group sizes and revenues of the rows handed to the summaries
GroupSizes == {0, 1, MaxCount}
GroupRevenues == {0, 7}
Interactions == {0, 50}

\* rows of the final SELECT, one day, either group
ParticipationRows ==
  { FinalSelect([created_day |-> 1, participation_group |-> g,
                 paying_users |-> 1, purchase_count |-> 1, total_revenue |-> r,
                 revenue_25th_percentile |-> r, revenue_median |-> r,
                 revenue_75th_percentile |-> r, revenue_90th_percentile |-> r,
                 first_time_payers |-> 0],
                [created_day |-> 1, participation_group |-> g,
                 group_total_users |-> u]) :
      g \in {"Event Participant", "Non-Participant"}, u \in GroupSizes,
      r \in GroupRevenues }

EngagementRows == { <<1, 10, n, Num(n, 10), 5, Num(n, 5)>> : n \in Interactions }

\* what execute_query can hand back for the rows the engine returned
TablesOf(rowset) ==
  {None} \cup
  { execute_query(Returns(rows), "Android").value :
      rows \in UNION {[1..n -> rowset] : n \in 0..MaxRows} }

SummaryArgs ==
  [op : {"summarize"}, participation_df : TablesOf(ParticipationRows),
   engagement_df : TablesOf(EngagementRows)]

\* df[name] on a table without that column raises KeyError
KeyError(df, name) == ~HasColumn(df, name)

\* lines 499-521: rename the columns, then the three summaries; only
\* total_engagement is computed outside a try block
Summarize ==
  /\ args.op = "summarize"
  /\ LET p_df == FixColumns(args.participation_df, ParticipationColumns)
         e_df == FixColumns(args.engagement_df, EngagementColumns)
         raised == /\ e_df # None
                   /\ ~IsEmpty(e_df)
                   /\ KeyError(e_df, "total_interactions")
     IN  result' =
           IF raised
           THEN [op |-> "summary", raised |-> TRUE,
                 participation_df |-> p_df, engagement_df |-> e_df]
           ELSE [op |-> "summary", raised |-> FALSE,
                 participation_df |-> p_df, engagement_df |-> e_df,
                 overall_participation_rate |->
                   calculate_overall_participation_rate(p_df),
                 overall_revenue |-> calculate_overall_revenue(p_df),
                 total_engagement |-> total_engagement_of(e_df)]
  /\ UNCHANGED args

InitSummary ==
  /\ SessionInit
  /\ args \in SummaryArgs
  /\ result = NoCall

NextSummary == Summarize /\ SessionUnchanged

SpecSummary == InitSummary /\ [][NextSummary]_vars

(* -------------------- the participation query's rows ------------------- *)
Groups == {"Event Participant", "Non-Participant"}
Accounts == {"a1", "a2"}
QueryDays == {1, 2}

\* rows of the three source tables that pass the WHERE clause of their CTE
RetentionRows == {[account_id |-> a, created_day |-> d] : a \in Accounts, d \in QueryDays}
EventRows == {[account_id |-> a, created_day |-> d] : a \in Accounts, d \in QueryDays}
PurchaseRows ==
  { [uuid |-> <<a, d>>, account_id |-> a, created_day |-> d, price_usd |-> 7,
     in_app_count |-> d] : a \in Accounts, d \in QueryDays }

\* SELECT DISTINCT r.account_id, r.created_day
eligible_users(retention) == {<<r.account_id, r.created_day>> : r \in retention}

\* SELECT DISTINCT e.account_id, e.created_day
event_participants(events) == {<<e.account_id, e.created_day>> : e \in events}

\* eligible_users LEFT JOIN event_participants, labelled by the CASE
user_participation(eu, ep) ==
  { [account_id |-> k[1], created_day |-> k[2],
     participation_group |-> IF k \in ep THEN "Event Participant"
                             ELSE "Non-Participant"] : k \in eu }

\* GROUP BY created_day, participation_group over user_participation
daily_active_users_by_group(up) ==
  { [created_day |-> key[1], participation_group |-> key[2],
     group_total_users |->
       Cardinality({u.account_id : u \in {v \in up : /\ v.created_day = key[1]
                                                    /\ v.participation_group = key[2]}})] :
      key \in {<<u.created_day, u.participation_group>> : u \in up} }

RECURSIVE SumPrices(_)
SumPrices(purchases) ==
  IF purchases = {} THEN 0
  ELSE LET i == CHOOSE j \in purchases : TRUE
       IN  i.price_usd + SumPrices(purchases \ {i})

\* f_sdk_in_app_data JOIN user_participation, GROUP BY i.created_day,
\* up.participation_group
iap_metrics(purchases, up) ==
  LET joined == {pair \in purchases \X up :
                   /\ pair[1].account_id = pair[2].account_id
                   /\ pair[1].created_day = pair[2].created_day}
      keys == {<<pair[1].created_day, pair[2].participation_group>> : pair \in joined}
      Of(key) == {pair[1] : pair \in {q \in joined : /\ q[1].created_day = key[1]
                                                     /\ q[2].participation_group = key[2]}}
  IN  { [created_day |-> key[1], participation_group |-> key[2],
         paying_users |-> Cardinality({i.account_id : i \in Of(key)}),
         purchase_count |-> Cardinality({i.uuid : i \in Of(key)}),
         total_revenue |-> SumPrices(Of(key)),
         revenue_25th_percentile |-> 7, revenue_median |-> 7,
         revenue_75th_percentile |-> 7, revenue_90th_percentile |-> 7,
         first_time_payers |->
           Cardinality({i \in Of(key) : i.in_app_count = 1})] : key \in keys }

\* ORDER BY im.created_day, im.participation_group
RowBefore(x, y) ==
  \/ x[1].created_day < y[1].created_day
  \/ /\ x[1].created_day = y[1].created_day
     /\ x[1].participation_group = "Event Participant"
     /\ y[1].participation_group = "Non-Participant"

RECURSIVE Ordered(_)
Ordered(pairs) ==
  IF pairs = {} THEN <<>>
  ELSE LET first == CHOOSE x \in pairs : \A y \in pairs : ~RowBefore(y, x)
       IN  <<first>> \o Ordered(pairs \ {first})

\* iap_metrics JOIN daily_active_users_by_group, the final SELECT on each pair
participation_result(retention, events, purchases) ==
  LET up == user_participation(eligible_users(retention), event_participants(events))
      pairs == {pair \in iap_metrics(purchases, up) \X daily_active_users_by_group(up) :
                  /\ pair[1].created_day = pair[2].created_day
                  /\ pair[1].participation_group = pair[2].participation_group}
      ordered == Ordered(pairs)
  IN  [n \in 1..Len(ordered) |-> FinalSelect(ordered[n][1], ordered[n][2])]

QueryArgs ==
  [op : {"query"}, retention : SUBSET RetentionRows, events : SUBSET EventRows,
   purchases : SUBSET PurchaseRows]

RunParticipationQuery ==
  /\ args.op = "query"
  /\ result' = [op |-> "rows",
                rows |-> participation_result(args.retention, args.events,
                                              args.purchases)]
  /\ UNCHANGED args

InitQuery ==
  /\ SessionInit
  /\ args \in QueryArgs
  /\ result = NoCall

NextQuery == RunParticipationQuery /\ SessionUnchanged

SpecQuery == InitQuery /\ [][NextQuery]_vars

(* ======================= properties of the session ===================== *)
\* the timestamps a stored period's strings stand for
StartOf(period) == ToDateTime(period.start_date)
EndOf(period) == ToDateTime(period.end_date)

\* the latest run's table of one query
TableOf(which, p_df, e_df) == IF which = "participation" THEN p_df ELSE e_df

\* C1: every stored period has end >= start, comparing date and time of day.
C1_EndNotBeforeStart ==
  \A i \in 1..Len(time_periods) :
    TsLeq(StartOf(time_periods[i]), EndOf(time_periods[i]))

\* C2: while the time-period list is empty, a script run (an Analyze click
\* included) calls execute_query for no query and makes no round-trip.
C2_NoQueryWhileEmpty ==
  time_periods = <<>> => (called = <<>> /\ issued = <<>>)

\* Analyze was clicked on an empty list, and the run drew the instructions
C2_Witness ==
  stage = "need_period" /\ time_periods = <<>> /\ DOMAIN cache # {}

\* C3: a step changes the list only as an accepted add (one period appended,
\* its end date not before its start date), a removal of one entry, or a
\* clear; an analysis run, failed queries or not, and a rejected add leave it.
C3_ListChangedOnlyByOperator ==
  [][ /\ stage' \in {"analyzed", "exception", "need_period", "rejected", "idle"}
        => time_periods' = time_periods
      /\ time_periods' # time_periods =>
           \/ /\ stage' = "added"
              /\ Len(time_periods') = Len(time_periods) + 1
              /\ SubSeq(time_periods', 1, Len(time_periods)) = time_periods
              /\ LET new == time_periods'[Len(time_periods')]
                 IN  StartOf(new)[1] <= EndOf(new)[1]
           \/ /\ stage' \in {"removed", "stopped_no_clients", "stopped_no_events"}
              /\ \E i \in 1..Len(time_periods) : time_periods' = Pop(time_periods, i)
           \/ /\ stage' \in {"cleared", "stopped_no_clients", "stopped_no_events"}
              /\ time_periods' = <<>>
    ]_vars

\* an analysis whose participation query failed, the list still there
C3_Witness ==
  /\ stage = "analyzed"
  /\ participation_df = None
  /\ Len(time_periods) = MaxPeriods

\* C4: an analysis run makes both execute_query calls and draws both results:
\* when the participation query fails the engagement query is still called
\* and the table the engine returned for it is shown, and when the engagement
\* query fails the participation table is still shown.
C4_FailureDoesNotAbortOther ==
  called # <<>> =>
    /\ stage = "analyzed"
    /\ Len(called) = 2
    /\ called[1].which = "participation" /\ called[2].which = "engagement"
    /\ view.widget = "analysis"
    /\ \A j \in 1..Len(issued) :
         (~issued[j].answer.raises /\ issued[j].answer.rows # <<>>) =>
           LET df == TableOf(issued[j].which, participation_df, engagement_df)
               shown == IF issued[j].which = "participation"
                        THEN view.raw_participation ELSE view.raw_engagement
           IN  /\ df # None
               /\ df.rows = issued[j].answer.rows
               /\ shown = [widget |-> "dataframe", df |-> df]

\* the participation query failed and the engagement rows are on the page
C4_Witness ==
  /\ stage = "analyzed"
  /\ participation_df = None
  /\ \E j \in 1..Len(issued) : issued[j].which = "participation" /\ issued[j].answer.raises
  /\ view.raw_engagement.widget = "dataframe"
  /\ view.engagement_charts

\* what the operator is shown of one table: the summary tiles that read it,
\* whether its charts are drawn, and its raw data expander
Presented(which, v) ==
  IF which = "participation"
  THEN <<v.overall_participation_rate, v.overall_revenue,
         v.participation_charts, v.raw_participation>>
  ELSE <<Zero, v.total_engagement, v.engagement_charts, v.raw_engagement>>

\* C5: execute_query returns an empty table when the engine returns no rows;
\* when the engine raises, the failure carries the platform and the message,
\* and what is shown of the failed query differs from what is shown of an
\* empty result.
C5_FailureDistinctFromEmpty ==
  stage = "analyzed" =>
    \A j \in 1..Len(issued) :
      LET which == issued[j].which
          df == TableOf(which, participation_df, engagement_df)
      IN  /\ (~issued[j].answer.raises /\ issued[j].answer.rows = <<>>)
               => df = EmptyDataFrame
          /\ issued[j].answer.raises =>
               /\ df = None
               /\ \E e \in 1..Len(errors) :
                    errors[e] = [platform |-> issued[j].platform,
                                 message |-> issued[j].answer.message]
               /\ Presented(which, view)
                    # Presented(which, Render(EmptyDataFrame, EmptyDataFrame))

\* C6: a call whose (query text, platform) has an unexpired entry makes no
\* round-trip and returns the stored table; any other call makes its own
\* round-trip; after the run every called (query text, platform) is stored.
C6_Memoization ==
  [][ \/ Tick
      \/ \A i \in 1..Len(called') :
           LET key == <<called'[i].query, called'[i].platform>>
               which == called'[i].which
               tripped == \E j \in 1..Len(issued') : issued'[j].which = which
               names == IF which = "participation"
                        THEN ParticipationColumns ELSE EngagementColumns
               df == TableOf(which, participation_df', engagement_df')
           IN  /\ (key \in DOMAIN cache /\ cache[key].age < TTL) =>
                    /\ ~tripped
                    /\ df = FixColumns(cache[key].out.value, names)
               /\ ~(key \in DOMAIN cache /\ cache[key].age < TTL) => tripped
               /\ key \in DOMAIN cache'
               /\ cache'[key].age < TTL
               /\ df = FixColumns(cache'[key].out.value, names)
    ]_vars

\* a repeated analysis, later within the window, answered from the memo alone
C6_Witness ==
  /\ stage = "analyzed"
  /\ issued = <<>>
  /\ Len(called) = 2
  /\ \A i \in 1..Len(called) :
       cache[<<called[i].query, called[i].platform>>].age > 0
  /\ participation_df # None /\ ~IsEmpty(participation_df)

\* the round-trips of a run made for one of its two queries
TripsFor(which, trips) == {j \in 1..Len(trips) : trips[j].which = which}

\* C16: a failed execute is stored like a table: the failed call leaves None
\* under its (query text, platform), and while that entry has not expired an
\* identical call makes no round-trip, whatever the engine would answer now,
\* returns None again and shows the stored error.
C16_FailureMemoized ==
  [][ \/ Tick
      \/ \A i \in 1..Len(called') :
           LET key == <<called'[i].query, called'[i].platform>>
               which == called'[i].which
               trips == TripsFor(which, issued')
               df == TableOf(which, participation_df', engagement_df')
               failed_before == /\ key \in DOMAIN cache
                                /\ cache[key].age < TTL
                                /\ cache[key].out.value = None
           IN  /\ failed_before =>
                    /\ trips = {}
                    /\ df = None
                    /\ \E e \in 1..Len(errors') :
                         errors'[e] = cache[key].out.shown[1]
               /\ \A j \in trips :
                    issued'[j].answer.raises =>
                      /\ key \in DOMAIN cache'
                      /\ cache'[key].age = 0
                      /\ cache'[key].out.value = None
                      /\ df = None
    ]_vars

\* a retry with unchanged filters, later within the window, after both
\* queries had failed: no round-trip, both failures shown again
C16_Witness ==
  /\ stage = "analyzed"
  /\ Len(called) = 2
  /\ issued = <<>>
  /\ participation_df = None
  /\ engagement_df = None
  /\ Len(errors) = 2
  /\ \A i \in 1..Len(called) :
       cache[<<called[i].query, called[i].platform>>].age > 0

(* ======================= properties of the builders ==================== *)
\* number of lexemes sep anywhere in text
CountOf(text, sep) == Cardinality({i \in 1..Len(text) : text[i] = sep})

\* g is one parenthesized group: it opens, closes at its last lexeme only
OneGroup(g) ==
  /\ Len(g) >= 2
  /\ g[1] = LP
  /\ g[Len(g)] = RP
  /\ \A i \in 1..(Len(g) - 1) : Depth(g, i) > 0
  /\ Depth(g, Len(g)) = 0

\* g bounds the timestamp by the period's two literals
CarriesPeriod(g, period) ==
  /\ \E i \in 1..Len(g) : g[i] = <<"created_date >= toDateTime">> \o period.start_date
  /\ \E i \in 1..Len(g) : g[i] = <<"created_date <= toDateTime">> \o period.end_date

\* n parenthesized clauses, one per period in input order, n-1 ORs between
WellFormedCondition(text, periods) ==
  LET n == Len(periods)
      groups == SplitTop(text, OR)
  IN  /\ Len(groups) = n
      /\ CountOf(text, OR) = n - 1
      /\ text[1] # OR /\ text[1] # AND
      /\ text[Len(text)] # OR /\ text[Len(text)] # AND
      /\ \A k \in 1..n : OneGroup(groups[k]) /\ CarriesPeriod(groups[k], periods[k])

\* C7: for n >= 1 periods the condition is n parenthesized clauses, one per
\* period in input order, joined by exactly n-1 OR, with no leading or
\* trailing operator (both builders: app.py and utils/db_connector.py).
C7_ClausesJoinedByOr ==
  result.op = "condition" =>
    /\ WellFormedCondition(result.text, args.time_periods)
    /\ WellFormedCondition(result.connector_text, args.time_periods)
    /\ Len(args.time_periods) = 1 => CountOf(result.text, OR) = 0

\* a condition built from the longest list
C7_Witness ==
  /\ result.op = "condition"
  /\ Len(args.time_periods) = MaxClauses
  /\ CountOf(result.text, OR) = MaxClauses - 1
  /\ args.time_periods[1] # args.time_periods[2]

\* the row lies in the period: its day within the dates, its timestamp
\* within the timestamps
InPeriod(row, period) ==
  /\ StartOf(period)[1] <= row.created_day
  /\ row.created_day <= EndOf(period)[1]
  /\ TsLeq(StartOf(period), row.created_date)
  /\ TsLeq(row.created_date, EndOf(period))

HasAtom(text, heads) == \E i \in 1..Len(text) : text[i][1] \in heads

\* C8: in each WHERE clause (three in the participation query, one in the
\* engagement query) the time condition is one parenthesized unit ANDed with
\* the level filter (and the event filter where there is one), so every row
\* let through lies in a selected period, has level >= min_level, and
\* matches the event name where the clause filters on it.
C8_TimeConditionEnclosed ==
  result.op \in {"participation", "engagement"} =>
    LET wheres == WhereClauses(result.text)
    IN  /\ Len(wheres) = IF result.op = "participation" THEN 3 ELSE 1
        /\ \A n \in 1..Len(wheres) :
             LET factors == SplitTop(wheres[n], AND)
                 unit == factors[1]
             IN  /\ Len(SplitTop(wheres[n], OR)) = 1
                 /\ OneGroup(unit)
                 /\ WellFormedCondition(SubSeq(unit, 2, Len(unit) - 1),
                                        args.time_periods)
                 /\ HasAtom(wheres[n], LevelAtoms)
                 /\ \A row \in result.accepted[n] :
                      /\ row.level >= args.min_level
                      /\ HasAtom(wheres[n], EventAtoms)
                           => row.event_name = args.event_name
                      /\ \E k \in 1..Len(args.time_periods) :
                           InPeriod(row, args.time_periods[k])
        /\ result.op = "participation" =>
             /\ ~HasAtom(wheres[1], EventAtoms)
             /\ HasAtom(wheres[2], EventAtoms)
        /\ result.op = "engagement" => HasAtom(wheres[1], EventAtoms)

\* several periods, a row of the first period only let through, and a row of
\* that period below the level kept out
C8_Witness ==
  /\ result.op = "participation"
  /\ Len(args.time_periods) >= 2
  /\ args.min_level = MaxLevel
  /\ \E row \in result.accepted[1] :
       /\ InPeriod(row, args.time_periods[1])
       /\ ~InPeriod(row, args.time_periods[2])
  /\ \E row \in Rows \ result.accepted[1] :
       /\ InPeriod(row, args.time_periods[1])
       /\ row.level < args.min_level
  /\ result.accepted[2] # result.accepted[1]

\* the four ratio columns of a row with their numerators and denominators
RatioColumns(row) ==
  << <<row[12], row[11], row[3]>>, <<row[13], row[4], row[3]>>,
     <<row[14], row[6], row[3]>>, <<row[15], row[6], row[4]>> >>

RECURSIVE SumOver(_, _, _)
SumOver(rows, c, idx) ==
  IF idx = {} THEN 0
  ELSE LET i == CHOOSE j \in idx : TRUE
       IN  rows[i][c] + SumOver(rows, c, idx \ {i})

\* a table that is missing (the query failed) or has no row
EmptyOrAbsent(df) == df = None \/ df.rows = <<>>

\* C11: overall_participation_rate is the sum of total_users over the Event
\* Participant rows divided by the sum of total_users over all rows, and 0
\* when the table is empty or that sum is 0.
C11_OverallParticipationRate ==
  (result.op = "summary" /\ ~result.raised) =>
    LET df == result.participation_df
        rate == result.overall_participation_rate
    IN  IF EmptyOrAbsent(df) THEN rate[1] = 0 /\ rate[2] # 0
        ELSE LET all == 1..Len(df.rows)
                 participants ==
                   SumOver(df.rows, 3, {i \in all : df.rows[i][2] = "Event Participant"})
                 total_users == SumOver(df.rows, 3, all)
             IN  /\ rate[2] # 0
                 /\ IF total_users = 0 THEN rate[1] = 0
                    ELSE rate[1] * total_users = participants * rate[2]

\* a table of both groups with a rate strictly between 0 and 1
C11_Witness ==
  /\ result.op = "summary"
  /\ ~result.raised
  /\ result.participation_df # None
  /\ Len(result.participation_df.rows) = 2
  /\ result.overall_participation_rate[1] > 0
  /\ result.overall_participation_rate[1] < result.overall_participation_rate[2]

\* C12: the three summaries never raise, return numbers for every table, and
\* return exactly 0 for a table that is empty or absent.
C12_SummariesTotal ==
  result.op = "summary" =>
    /\ ~result.raised
    /\ result.overall_participation_rate[1] \in Int
    /\ result.overall_participation_rate[2] \in Int \ {0}
    /\ result.overall_revenue \in Int
    /\ result.total_engagement \in Int
    /\ EmptyOrAbsent(args.participation_df) =>
         /\ result.overall_participation_rate[1] = 0
         /\ result.overall_revenue = 0
    /\ EmptyOrAbsent(args.engagement_df) => result.total_engagement = 0

\* the participation query failed and the engagement query returned no row
C12_Witness ==
  /\ result.op = "summary"
  /\ args.participation_df = None
  /\ args.engagement_df = EmptyDataFrame
  /\ result.overall_revenue = 0
  /\ result.total_engagement = 0

(* ---------------------- properties of the connections ------------------ *)
\* every call and every round-trip of the latest run is for a platform whose
\* connection test passed in that run
OnlyConnectedPlatforms ==
  /\ \A i \in 1..Len(called) : called[i].platform \in clients
  /\ \A i \in 1..Len(issued) : issued[i].platform \in clients

\* C13 as stated: calls and round-trips only for connected platforms, and a
\* run stops early only when no platform connected.
C13_StopsOnlyWithoutConnection ==
  /\ OnlyConnectedPlatforms
  /\ stage \in {"stopped_no_clients", "stopped_no_events"} => clients = {}

\* C13, amended: calls and round-trips only for connected platforms; a run
\* stops at the connection check exactly when no platform connected, and the
\* only other early stop is the one for a selected platform without events.
C13_ConnectionFailureIsolated ==
  /\ OnlyConnectedPlatforms
  /\ stage # "start" => (stage = "stopped_no_clients" <=> clients = {})
  /\ stage = "stopped_no_events" => clients # {}
  /\ stage \in {"analyzed", "exception"} =>
       /\ called # <<>>
       /\ called[1].platform \in clients

\* Android failed its connection test and the analysis ran on iOS, reaching
\* the engine for both queries
C13_Witness ==
  /\ stage = "analyzed"
  /\ clients = {"iOS"}
  /\ Len(issued) = 2
  /\ issued[1].platform = "iOS"
  /\ issued[2].platform = "iOS"

(* -------------------------- properties of the list --------------------- *)
\* after is before with one entry put at the end
Appended(before, after, entry) ==
  /\ Len(after) = Len(before) + 1
  /\ \A k \in 1..Len(before) : after[k] = before[k]
  /\ after[Len(after)] = entry

\* after is before without its entry i, the others in their order
Removed(before, after, i) ==
  /\ Len(after) = Len(before) - 1
  /\ \A k \in 1..Len(after) : after[k] = IF k < i THEN before[k] ELSE before[k + 1]

\* C14: an accepted add puts the new period at the end and leaves the others
\* in place; removing entry i takes out that entry only and keeps the order
\* of the others; clear leaves the list empty.
C14_OrderedSequence ==
  [][ /\ \A f \in ListInputs, conn \in Connections :
           (AddPeriod(f, conn, AvailableEvents) /\ stage' = "added")
             => Appended(time_periods, time_periods', NewPeriod(f))
      /\ \A i \in 1..MaxListed, conn2 \in Connections, avail2 \in EventLists :
           RemovePeriod(i, conn2, avail2)
             => Removed(time_periods, time_periods', i)
      /\ \A conn2 \in Connections, avail2 \in EventLists :
           ClearPeriods(conn2, avail2) => time_periods' = <<>>
    ]_vars

\* the middle one of three different periods was removed
C14_Witness ==
  /\ stage = "removed"
  /\ time_periods = << NewPeriod(FormInput(1, 1, 2, 3)), NewPeriod(FormInput(3, 1, 3, 2)) >>

(* ------------------- properties of the participation rows -------------- *)
\* the accounts of a day that passed the eligibility filter and fall in a group
Classified(day, group) ==
  { a \in Accounts :
      /\ \E r \in args.retention : r.account_id = a /\ r.created_day = day
      /\ (group = "Event Participant") <=>
           (\E e \in args.events : e.account_id = a /\ e.created_day = day) }

\* the result rows of a (day, group)
RowsFor(day, group) ==
  {n \in 1..Len(result.rows) : result.rows[n][1] = day /\ result.rows[n][2] = group}

\* no two rows share a (day, group), and a row's group has classified users
AtMostOneRowPerDayGroup ==
  result.op = "rows" =>
    \A day \in QueryDays, group \in Groups :
      /\ Cardinality(RowsFor(day, group)) <= 1
      /\ RowsFor(day, group) # {} => Classified(day, group) # {}

\* C15: every (day, group) with at least one classified eligible user, a group
\* without any purchase that day included, has exactly one row, and no two
\* rows share a (day, group).
C15_OneRowPerDayGroup ==
  result.op = "rows" =>
    \A day \in QueryDays, group \in Groups :
      /\ Cardinality(RowsFor(day, group)) <= 1
      /\ Classified(day, group) # {} => Cardinality(RowsFor(day, group)) = 1

====
